---- MODULE Spec2Model ----
(***************************************************************************)
(* Model of pyprob/diagnostics.py: the report generators                   *)
(* network_statistics, graph, log_prob, autocorrelations, gelman_rubin and *)
(* the Diagnostics facade.  Every function is a straight-line program; a   *)
(* call is modelled by its arguments (args), its position (pc), its local  *)
(* variables (locals), what it has done to the outside world (effects) and *)
(* how it ended (outcome).                                                 *)
(*                                                                         *)
(* Floating point numbers are modelled exactly, as rationals n/d, with the *)
(* IEEE values nan and inf kept apart; the square root of a rational is    *)
(* kept symbolically (t = "sqrt").                                         *)
(***************************************************************************)
EXTENDS Integers, Sequences, FiniteSets, TLC

VARIABLES fn, args, pc, locals, effects, outcome

vars == <<fn, args, pc, locals, effects, outcome>>

\* ------------------------------------------------------------------------
\* Bounds of the model
\* ------------------------------------------------------------------------
MaxChains == 3
MaxLen == 3
MaxVal == 1
MaxParams == 2
MaxAddresses == 2
MaxTraceTypes == 2

\* ------------------------------------------------------------------------
\* Python / numpy values
\* ------------------------------------------------------------------------
\* np.nan inside a numeric vector; also "the variable is absent from the trace"
NaN == 0 - 1
\* n_most_frequent=None
None == 0 - 1

Vals == 0..MaxVal

SeqsUpTo(S, n) == UNION {[1..k -> S] : k \in 0..n}

Range(s) == {s[i] : i \in DOMAIN s}

Max(S) == CHOOSE x \in S : \A y \in S : y <= x
Min(S) == CHOOSE x \in S : \A y \in S : x <= y

RECURSIVE SumSeq(_)
SumSeq(s) == IF s = <<>> THEN 0 ELSE Head(s) + SumSeq(Tail(s))

Abs(x) == IF x < 0 THEN 0 - x ELSE x

RECURSIVE GCD(_, _)
GCD(a, b) == IF b = 0 THEN a ELSE GCD(b, a % b)

\* A float: nan, inf, a rational n/d in lowest terms with d > 0 ("num"),
\* or the square root of one ("sqrt").
NaNF == [t |-> "nan", n |-> 0, d |-> 1]
InfF == [t |-> "inf", n |-> 0, d |-> 1]

Rat(n, d) ==
    LET g == GCD(Abs(n), Abs(d))
        s == IF d < 0 THEN 0 - 1 ELSE 1
    IN  [t |-> "num", n |-> (s * n) \div g, d |-> (s * d) \div g]

\* float(v) of a trace value, np.nan kept
F(v) == IF v = NaN THEN NaNF ELSE Rat(v, 1)

FAdd(a, b) == IF a.t = "nan" \/ b.t = "nan" THEN NaNF
              ELSE Rat(a.n * b.d + b.n * a.d, a.d * b.d)
FSub(a, b) == IF a.t = "nan" \/ b.t = "nan" THEN NaNF
              ELSE Rat(a.n * b.d - b.n * a.d, a.d * b.d)
FMul(a, b) == IF a.t = "nan" \/ b.t = "nan" THEN NaNF
              ELSE Rat(a.n * b.n, a.d * b.d)
\* numpy division: x/0 is nan for x = 0 and inf for x > 0 (a warning, no error)
FDiv(a, b) == IF a.t = "nan" \/ b.t = "nan" THEN NaNF
              ELSE IF b.n = 0 THEN (IF a.n = 0 THEN NaNF ELSE InfF)
              ELSE Rat(a.n * b.d, a.d * b.n)
\* np.sqrt of a non-negative float
FSqrt(a) == IF a.t = "num" THEN [t |-> "sqrt", n |-> a.n, d |-> a.d] ELSE a

RECURSIVE FSum(_)
FSum(s) == IF s = <<>> THEN Rat(0, 1) ELSE FAdd(Head(s), FSum(Tail(s)))

\* np.mean and np.var (ddof = 0) of one row
NpMean(row) == FDiv(FSum([i \in DOMAIN row |-> F(row[i])]), Rat(Len(row), 1))
NpVar(row) ==
    LET mu == NpMean(row)
        dev == [i \in DOMAIN row |-> FMul(FSub(F(row[i]), mu), FSub(F(row[i]), mu))]
    IN  FDiv(FSum(dev), Rat(Len(row), 1))

\* ------------------------------------------------------------------------
\* Traces, variables and trace distributions (pyprob.trace, pyprob.distributions)
\* ------------------------------------------------------------------------
\* The random-choice sites of the program under diagnosis.  Each site is one
\* Variable: its address, its name (tag) or "None", and its flags;
\* scalar stands for variable.value.nelement() == 1.
Sites == {"x", "c", "o", "v"}

Variable ==
    [x |-> [address |-> "a_x", name |-> "x",    control |-> FALSE, observed |-> FALSE, scalar |-> TRUE],
     c |-> [address |-> "a_c", name |-> "None", control |-> TRUE,  observed |-> FALSE, scalar |-> TRUE],
     o |-> [address |-> "a_o", name |-> "o",    control |-> FALSE, observed |-> TRUE,  scalar |-> TRUE],
     v |-> [address |-> "a_v", name |-> "v",    control |-> FALSE, observed |-> FALSE, scalar |-> FALSE]]

\* The order in which an execution visits the sites
SiteOrder == <<"x", "c", "o", "v">>

\* A Trace gives each site the value sampled there, or Absent when the
\* execution did not reach the site.
Absent == NaN

Tr(x, c, o, v) == [x |-> x, c |-> c, o |-> o, v |-> v]

named_variables(trace) ==
    {Variable[s].name : s \in {s \in Sites : trace[s] # Absent /\ Variable[s].name # "None"}}
NamedSite(name) == CHOOSE s \in Sites : Variable[s].name = name
variables_controlled(trace) ==
    SelectSeq(SiteOrder, LAMBDA s : trace[s] # Absent /\ Variable[s].control)
variables_dict_address(trace) ==
    {Variable[s].address : s \in {s \in Sites : trace[s] # Absent}}
AddressSite(address) == CHOOSE s \in Sites : Variable[s].address = address

\* What a caller can pass where a trace distribution is expected:
\*   EmpiricalTrace  an Empirical whose elements are Trace values
\*   EmpiricalOther  an Empirical whose elements are not Trace values
\*   ListTrace       a plain Python list of Trace values (no .length attribute)
\*   ListOther       a plain Python list of other values
\*   Scalar          a value that cannot be indexed (None, a number)
Kinds == {"EmpiricalTrace", "EmpiricalOther", "ListTrace", "ListOther", "Scalar"}

IsEmpirical(td) == td.kind \in {"EmpiricalTrace", "EmpiricalOther"}
IsSubscriptable(td) == td.kind # "Scalar"
FirstIsTrace(td) == td.kind \in {"EmpiricalTrace", "ListTrace"}
HasLength(td) == IsEmpirical(td)

\* How a step of a call ends
Ok(v) == [exc |-> "None", value |-> v]
Raise(e) == [exc |-> e, value |-> <<>>]

Running == [status |-> "running", exc |-> "None", value |-> <<>>]
Returned(v) == [status |-> "returned", exc |-> "None", value |-> v]
Raised(e) == [status |-> "raised", exc |-> e, value |-> <<>>]

InSeq(x, s) == \E i \in DOMAIN s : s[i] = x

\* ------------------------------------------------------------------------
\* gelman_rubin
\* ------------------------------------------------------------------------
\* the loop "for address, count in address_counts.items(): ...; if
\* all_variables_count == n_most_frequent: break": the first n items, and all
\* of them when n is 0 or exceeds their number
TakeMostFrequent(s, n) == IF n >= 1 /\ n <= Len(s) THEN SubSeq(s, 1, n) ELSE s

\* address_counts after the filter count >= num_traces, most frequent first:
\* the scalar controlled addresses that appear in every trace (an address
\* occurs at most once in a trace), in order of first appearance
address_counts(traces) ==
    LET count(s) == Cardinality({i \in DOMAIN traces :
                        InSeq(s, variables_controlled(traces[i])) /\ Variable[s].scalar})
        kept == SelectSeq(SiteOrder, LAMBDA s : count(s) >= 1 /\ count(s) >= Len(traces))
    IN  [i \in DOMAIN kept |-> Variable[kept[i]].address]

\* lines 516-531: the named, non-controlled scalar variables of one chain, each
\* with its vector of values, nan where the trace does not have the variable
NamedValues(traces, names) ==
    LET L == Len(traces)
        name_list(i) == IF names.given THEN Range(names.list) ELSE named_variables(traces[i])
        sampled(s, i) == /\ Variable[s].name \in name_list(i)
                         /\ Variable[s].name \in named_variables(traces[i])
                         /\ ~Variable[s].control
                         /\ Variable[s].scalar
        found == {s \in Sites : \E i \in 1..L : sampled(s, i)}
        keys == {<<Variable[s].address, Variable[s].name>> : s \in found}
    IN  [k \in keys |-> [i \in 1..L |->
            IF sampled(AddressSite(k[1]), i) THEN traces[i][AddressSite(k[1])] ELSE NaN]]

single_trace_dist_values(trace_dist, trace_dist_length, names, n_most_frequent) ==
    LET traces == trace_dist.traces
        L == Len(traces)
        named == NamedValues(traces, names)
        chosen == TakeMostFrequent(address_counts(traces), n_most_frequent)
        keys == DOMAIN named \cup {<<chosen[j], "None">> : j \in DOMAIN chosen}
    IN  IF ~IsEmpirical(trace_dist) THEN Raise("TypeError")
        ELSE IF ~FirstIsTrace(trace_dist) THEN Raise("TypeError")
        ELSE IF L # trace_dist_length THEN Raise("ValueError")
        ELSE IF n_most_frequent = None THEN Ok(named)
        \* lines 558-563: every selected variable is read from every trace by address
        ELSE IF \E i \in 1..L : \E k \in keys : k[1] \notin variables_dict_address(traces[i])
             THEN Raise("KeyError")
        ELSE Ok([k \in keys |-> [i \in 1..L |-> traces[i][AddressSite(k[1])]]])

\* A numpy array: a vector (ndim = 1, one row) or a matrix (ndim = 2)
merge_dicts(d1, d2) ==
    [k \in DOMAIN d1 \cup DOMAIN d2 |->
        IF k \in DOMAIN d2
        THEN IF k \in DOMAIN d1
             THEN [ndim |-> 2, rows |-> Append(d1[k].rows, d2[k])]
             ELSE [ndim |-> 1, rows |-> <<d2[k]>>]
        ELSE d1[k]]

Size(a) == SumSeq([i \in DOMAIN a.rows |-> Len(a.rows[i])])
NCols(a) == IF a.rows = <<>> THEN 0 ELSE Len(a.rows[1])

\* values[:, :n]
Columns(rows, from, to) == [i \in DOMAIN rows |-> SubSeq(rows[i], from, to)]

\* gelman_rubin_diagnostic with the factor (n-1)/n of the pooled variance dropped
gelman_rubin_diagnostic_NoShrink(x) ==
    LET m == Len(x)
        n == Len(x[1])
        theta == [i \in 1..m |-> NpMean(x[i])]
        sigma == [i \in 1..m |-> NpVar(x[i])]
        theta_m == FDiv(FSum(theta), Rat(m, 1))
        b == FMul(Rat(n, m - 1),
                  FSum([i \in 1..m |-> FMul(FSub(theta[i], theta_m), FSub(theta[i], theta_m))]))
        w == FMul(Rat(1, m), FSum(sigma))
        v_hat == FAdd(w, FMul(Rat(m + 1, m * n), b))
        r_hat == FSqrt(FDiv(v_hat, w))
    IN  IF m < 2 THEN Raise("ValueError") ELSE Ok(r_hat)

\* gelman_rubin_diagnostic with the between-chain term of the pooled variance dropped
gelman_rubin_diagnostic_NoBetween(x) ==
    LET m == Len(x)
        n == Len(x[1])
        sigma == [i \in 1..m |-> NpVar(x[i])]
        w == FMul(Rat(1, m), FSum(sigma))
        v_hat == FMul(Rat(n - 1, n), w)
        r_hat == FSqrt(FDiv(v_hat, w))
    IN  IF m < 2 THEN Raise("ValueError") ELSE Ok(r_hat)

gelman_rubin_diagnostic(x) ==
    LET m == Len(x)
        n == Len(x[1])
        theta == [i \in 1..m |-> NpMean(x[i])]
        sigma == [i \in 1..m |-> NpVar(x[i])]
        theta_m == FDiv(FSum(theta), Rat(m, 1))
        b == FMul(Rat(n, m - 1),
                  FSum([i \in 1..m |-> FMul(FSub(theta[i], theta_m), FSub(theta[i], theta_m))]))
        w == FMul(Rat(1, m), FSum(sigma))
        v_hat == FAdd(FMul(Rat(n - 1, n), w), FMul(Rat(m + 1, m * n), b))
        r_hat == FSqrt(FDiv(v_hat, w))
    IN  IF m < 2 THEN Raise("ValueError") ELSE Ok(r_hat)

\* np.unique(np.logspace(0, np.log10(length)).astype(int)): 50 log-spaced
\* points from 1 to length, truncated; for the lengths of this model (below
\* 8) that is every integer from 1 to length
Iters(length) == [i \in 1..length |-> i]

\* rhat that takes the first t columns of the trimmed matrix at every cutoff t
rhat_NoShift(values, iters, trace_dist_length) ==
    LET num_missing_samples == trace_dist_length - NCols(values)
    IN  [i \in DOMAIN iters |->
            IF iters[i] <= num_missing_samples THEN NaNF
            ELSE gelman_rubin_diagnostic(
                    Columns(values.rows, 1, Min({iters[i], NCols(values)}))).value]

rhat(values, iters, trace_dist_length) ==
    LET num_missing_samples == trace_dist_length - NCols(values)
    IN  [i \in DOMAIN iters |->
            IF iters[i] <= num_missing_samples THEN NaNF
            ELSE gelman_rubin_diagnostic(
                    Columns(values.rows, 1, iters[i] - num_missing_samples)).value]

\* lines 579-587: the matrix without the columns before the first one at which
\* every chain that has the variable at all has sampled it
IsSampled(v) == v # NaN
FirstNonNan(row) == Min({i \in DOMAIN row : IsSampled(row[i])}) - 1
\* starting_col that takes the first column at which any chain has sampled
starting_col_Min(rows) ==
    LET first_non_nans == {FirstNonNan(rows[r]) :
                              r \in {r \in DOMAIN rows : \E i \in DOMAIN rows[r] : IsSampled(rows[r][i])}}
    IN  IF first_non_nans # {} THEN Min(first_non_nans) ELSE Len(rows[1]) + 1

starting_col(rows) ==
    LET first_non_nans == {FirstNonNan(rows[r]) :
                              r \in {r \in DOMAIN rows : \E i \in DOMAIN rows[r] : IsSampled(rows[r][i])}}
    IN  IF first_non_nans # {} THEN Max(first_non_nans) ELSE Len(rows[1]) + 1

Trim(rows) == Columns(rows, starting_col(rows) + 1, Len(rows[1]))

\* lines 591-597: each nan takes the value before it in its row; the first
\* entry of a row is its own predecessor
\* FillRow that never updates last_value: every nan takes the first entry
RECURSIVE FillRow_FirstValue(_, _)
FillRow_FirstValue(row, last_value) ==
    IF row = <<>> THEN <<>>
    ELSE <<IF Head(row) = NaN THEN last_value ELSE Head(row)>>
             \o FillRow_FirstValue(Tail(row), last_value)

RECURSIVE FillRow(_, _)
FillRow(row, last_value) ==
    IF row = <<>> THEN <<>>
    ELSE LET cur == IF Head(row) = NaN THEN last_value ELSE Head(row)
         IN  <<cur>> \o FillRow(Tail(row), cur)

ForwardFill(rows) == [r \in DOMAIN rows |-> FillRow(rows[r], rows[r][1])]

\* lines 578-597 for one variable
TrimAndFill(value, n_chains) ==
    IF value.ndim # 2 THEN Raise("ValueError")       \* r, c = x with a 1-tuple
    ELSE IF NCols([rows |-> Trim(value.rows)]) = 0 THEN Raise("IndexError")   \* value[chain_idx, 0]
    ELSE Ok([ndim |-> 2, rows |-> ForwardFill(Trim(value.rows))])

\* The arguments of a call of gelman_rubin (plot is left False)
GRArgs(trace_dists, names, n_most_frequent) ==
    [trace_dists |-> trace_dists, names |-> names, n_most_frequent |-> n_most_frequent]

GRLocals == [trace_dist_length |-> 0, k |-> 1, variable_values |-> <<>>,
             iters |-> <<>>, variable_rhats |-> <<>>]

\* What a call has done so far: the directories it created, the files it
\* wrote (in order), the traces it scanned, the values it loaded, the figures
\* it drew
NoEffects == [dirs |-> {}, writes |-> <<>>, scanned |-> 0, loaded |-> 0, plots |-> 0]

\* lines 568-569: trace_dist_length = trace_dists[0].length
GR_Length ==
    /\ fn = "gelman_rubin" /\ pc = "length"
    /\ IF args.trace_dists = <<>>
       THEN /\ outcome' = Raised("IndexError")
            /\ pc' = "done"
            /\ UNCHANGED locals
       ELSE IF ~HasLength(args.trace_dists[1])
       THEN /\ outcome' = Raised("AttributeError")
            /\ pc' = "done"
            /\ UNCHANGED locals
       ELSE /\ locals' = [locals EXCEPT !.trace_dist_length = Len(args.trace_dists[1].traces)]
            /\ pc' = "chains"
            /\ UNCHANGED outcome
    /\ UNCHANGED <<fn, args, effects>>

\* lines 570-571, one iteration:
\* variable_values = merge_dicts(variable_values, single_trace_dist_values(trace))
GR_Chain ==
    /\ fn = "gelman_rubin" /\ pc = "chains"
    /\ locals.k <= Len(args.trace_dists)
    /\ LET r == single_trace_dist_values(args.trace_dists[locals.k], locals.trace_dist_length,
                                         args.names, args.n_most_frequent)
       IN  IF r.exc # "None"
           THEN /\ outcome' = Raised(r.exc)
                /\ pc' = "done"
                /\ UNCHANGED locals
           ELSE /\ locals' = [locals EXCEPT !.k = @ + 1,
                                 !.variable_values = merge_dicts(@, r.value)]
                /\ UNCHANGED <<pc, outcome>>
    /\ UNCHANGED <<fn, args, effects>>

\* lines 573-575: the cutoffs, and only the variables found in every chain
GR_Select ==
    /\ fn = "gelman_rubin" /\ pc = "chains"
    /\ locals.k > Len(args.trace_dists)
    /\ LET vv == locals.variable_values
           n == Len(args.trace_dists)
           kept == {k \in DOMAIN vv : Size(vv[k]) = Len(args.trace_dists[1].traces) * n}
       IN  locals' = [locals EXCEPT !.iters = Iters(Len(args.trace_dists[n].traces)),
                         !.variable_values = [k \in kept |-> vv[k]]]
    /\ pc' = "fill"
    /\ UNCHANGED <<fn, args, effects, outcome>>

\* lines 576-597: trim and forward-fill every retained matrix
GR_Fill ==
    /\ fn = "gelman_rubin" /\ pc = "fill"
    /\ LET vv == locals.variable_values
           res == [k \in DOMAIN vv |-> TrimAndFill(vv[k], Len(args.trace_dists))]
       IN  IF \E k \in DOMAIN vv : res[k].exc # "None"
           THEN /\ outcome' = Raised(res[CHOOSE k \in DOMAIN vv : res[k].exc # "None"].exc)
                /\ pc' = "done"
                /\ UNCHANGED locals
           ELSE /\ locals' = [locals EXCEPT !.variable_values = [k \in DOMAIN vv |-> res[k].value]]
                /\ pc' = "rhat"
                /\ UNCHANGED outcome
    /\ UNCHANGED <<fn, args, effects>>

\* lines 599-604: variable_rhats[address] = rhat(values, iters)
GR_Rhat ==
    /\ fn = "gelman_rubin" /\ pc = "rhat"
    /\ LET vv == locals.variable_values
           addresses == {k[1] : k \in DOMAIN vv}
           key(a) == CHOOSE k \in DOMAIN vv : k[1] = a
       IN  locals' = [locals EXCEPT !.variable_rhats =
                         [a \in addresses |-> rhat(vv[key(a)], locals.iters, locals.trace_dist_length)]]
    /\ pc' = "return"
    /\ UNCHANGED <<fn, args, effects, outcome>>

\* line 640: return iters, variable_rhats
GR_Return ==
    /\ fn = "gelman_rubin" /\ pc = "return"
    /\ outcome' = Returned([iters |-> locals.iters, variable_rhats |-> locals.variable_rhats])
    /\ pc' = "done"
    /\ UNCHANGED <<fn, args, locals, effects>>

\* ------------------------------------------------------------------------
\* The calls of gelman_rubin that are explored
\* ------------------------------------------------------------------------
NoNames == [given |-> FALSE, list |-> <<>>]
Names(list) == [given |-> TRUE, list |-> list]

Chain(kind, traces) == [kind |-> kind, traces |-> traces]

\* a trace that has at most the tagged variable x
XTrace(x) == Tr(x, Absent, Absent, Absent)

\* chains of 1..MaxLen traces whose x is any value or absent
XChains == {[i \in DOMAIN xs |-> XTrace(xs[i])] :
               xs \in SeqsUpTo(Vals \cup {Absent}, MaxLen) \ {<<>>}}

\* m copies of one chain (none for m = 0)
GRIdenticalCalls ==
    {GRArgs([i \in 1..m |-> Chain("EmpiricalTrace", ch)], names, None) :
        m \in 0..MaxChains, ch \in XChains, names \in {NoNames, Names(<<"x">>)}}

\* A chain of length len whose x is sampled at the positions in present, with a
\* value that differs at every position of every chain, and whose controlled
\* site c is sampled in every trace if ctrl
PatternChain(chain, len, present, ctrl) ==
    Chain("EmpiricalTrace",
          [i \in 1..len |-> Tr(IF i \in present THEN (chain - 1) * MaxLen + i ELSE Absent,
                               IF ctrl THEN i ELSE Absent, Absent, Absent)])

Patterns == {<<len, present>> : len \in 1..MaxLen, present \in SUBSET (1..MaxLen)}

\* a first chain of one pattern followed by m-1 chains of another
GRMixedCalls ==
    {GRArgs([i \in 1..m |-> IF i = 1 THEN PatternChain(i, pa[1], pa[2], ctrl)
                            ELSE PatternChain(i, pb[1], pb[2], ctrl)],
            NoNames, nmf) :
        m \in 2..MaxChains, ctrl \in BOOLEAN, nmf \in {None, 0, 1},
        pa \in {p \in Patterns : p[2] \subseteq 1..p[1]},
        pb \in {p \in Patterns : p[2] \subseteq 1..p[1]}}

\* m elements, the one at pos not an MCMC trace distribution, the others
\* chains in which x is always sampled: the first of length l1, the rest of
\* length l2
GRBadCalls ==
    {GRArgs([i \in 1..m |-> IF i = pos THEN Chain(kind, [j \in 1..l2 |-> XTrace(0)])
                            ELSE PatternChain(i, IF i = 1 THEN l1 ELSE l2, 1..MaxLen, FALSE)],
            NoNames, None) :
        m \in 1..MaxChains, pos \in 1..MaxChains, kind \in Kinds \ {"EmpiricalTrace"},
        l1 \in 1..MaxLen, l2 \in 1..MaxLen}

GRCalls == GRIdenticalCalls \cup GRMixedCalls \cup GRBadCalls

InitGR ==
    /\ fn = "gelman_rubin"
    /\ args \in GRCalls
    /\ pc = "length"
    /\ locals = GRLocals
    /\ effects = NoEffects
    /\ outcome = Running

NextGR == GR_Length \/ GR_Chain \/ GR_Select \/ GR_Fill \/ GR_Rhat \/ GR_Return

SpecGR == InitGR /\ [][NextGR]_vars

\* ------------------------------------------------------------------------
\* Properties of gelman_rubin
\* ------------------------------------------------------------------------
GRDone == fn = "gelman_rubin" /\ pc = "done"
AllChainsValid == \A i \in DOMAIN args.trace_dists : args.trace_dists[i].kind = "EmpiricalTrace"

\* C1: gelman_rubin called with a list of exactly one valid MCMC trace
\* distribution fails with a ValueError, whatever its traces contain.
C1_SingleChainValueError ==
    (GRDone /\ Len(args.trace_dists) = 1 /\ AllChainsValid)
        => (outcome.status = "raised" /\ outcome.exc = "ValueError")

\* C2: gelman_rubin fails with a TypeError whenever any element of
\* trace_dists, the first included, is not an Empirical distribution of Trace
\* values; no other error comes first and nothing is returned.
C2_InvalidElementTypeError ==
    (GRDone /\ ~AllChainsValid)
        => (outcome.status = "raised" /\ outcome.exc = "TypeError")

\* C10: if any chain of trace_dists has a length different from the first
\* chain's, gelman_rubin fails with a ValueError and returns nothing.
C10_UnequalLengthValueError ==
    (GRDone /\ AllChainsValid
        /\ \E i \in DOMAIN args.trace_dists :
              Len(args.trace_dists[i].traces) # Len(args.trace_dists[1].traces))
        => (outcome.status = "raised" /\ outcome.exc = "ValueError")

IdenticalChains ==
    /\ Len(args.trace_dists) >= 2
    /\ AllChainsValid
    /\ \A i \in DOMAIN args.trace_dists : args.trace_dists[i] = args.trace_dists[1]

\* the within-chain variance W of the first n columns of a matrix
WithinChainVariance(rows, n) ==
    FMul(Rat(1, Len(rows)), FSum([r \in DOMAIN rows |-> NpVar(SubSeq(rows[r], 1, n))]))

\* the R-hat entries of a returned call that were computed from columns with
\* nonzero within-chain variance: <<entry, number of columns used>>
RhatEntriesWithVariance ==
    LET vv == locals.variable_values
    IN  {<<outcome.value.variable_rhats[k[1]][i],
           locals.iters[i] - (locals.trace_dist_length - NCols(vv[k]))>> :
            <<k, i>> \in {<<k, i>> \in (DOMAIN vv) \X (DOMAIN locals.iters) :
                LET n == locals.iters[i] - (locals.trace_dist_length - NCols(vv[k]))
                IN  /\ n >= 1
                    /\ WithinChainVariance(vv[k].rows, n).t = "num"
                    /\ WithinChainVariance(vv[k].rows, n).n # 0}}

\* C7 as stated: for m >= 2 identical chains every R-hat entry computed where
\* the within-chain variance is nonzero is finite and approximately 1 (here:
\* within one tenth of 1, 0.9 <= R-hat <= 1.1).
C7_IdenticalChainsRhatNearOne ==
    (GRDone /\ outcome.status = "returned" /\ IdenticalChains)
        => \A e \in RhatEntriesWithVariance :
              /\ e[1].t = "sqrt"
              /\ 81 * e[1].d <= 100 * e[1].n
              /\ 100 * e[1].n <= 121 * e[1].d

\* C7 amended: for m >= 2 identical chains every R-hat entry computed from n
\* columns with nonzero within-chain variance is finite and equals
\* sqrt((n-1)/n): below 1, and close to 1 only for large n.
C7_IdenticalChainsRhat ==
    (GRDone /\ outcome.status = "returned" /\ IdenticalChains)
        => \A e \in RhatEntriesWithVariance :
              e[1] = [t |-> "sqrt", n |-> e[2] - 1, d |-> e[2]]

C7_Witness ==
    /\ GRDone /\ outcome.status = "returned" /\ IdenticalChains
    /\ Len(args.trace_dists) = MaxChains
    /\ \E e \in RhatEntriesWithVariance : e[2] = MaxLen /\ e[1].t = "sqrt"

\* row r, column i is the only nan of the matrix
SingleMissing(rows, r, i) ==
    /\ rows[r][i] = NaN
    /\ \A r2 \in DOMAIN rows : \A i2 \in DOMAIN rows[r2] :
          <<r2, i2>> # <<r, i>> => rows[r2][i2] # NaN

\* C8: when the matrix of a variable has a single missing entry, at position
\* i > 0 of one chain, forward-filling sets it to that chain's value at i-1
\* and changes no other entry of the matrix.
C8_ForwardFillSingleGap ==
    [][(fn = "gelman_rubin" /\ pc = "fill" /\ pc' = "rhat")
        => \A k \in DOMAIN locals.variable_values :
             LET rows == locals.variable_values[k].rows
             IN  \A r \in DOMAIN rows : \A i \in DOMAIN rows[r] :
                    (i > 1 /\ SingleMissing(rows, r, i))
                        => locals'.variable_values[k].rows
                             = [rows EXCEPT ![r][i] = rows[r][i - 1]]]_vars

\* the matrix of x as merged from the chains, before trimming and filling
MergedX == [r \in DOMAIN args.trace_dists |->
               [i \in DOMAIN args.trace_dists[r].traces |-> args.trace_dists[r].traces[i].x]]

C8_Witness ==
    /\ fn = "gelman_rubin" /\ pc = "rhat" /\ args.n_most_frequent = None
    /\ Len(args.trace_dists) = MaxChains
    /\ \A r \in DOMAIN args.trace_dists : Len(args.trace_dists[r].traces) = MaxLen
    /\ <<"a_x", "x">> \in DOMAIN locals.variable_values
    /\ SingleMissing(MergedX, 1, MaxLen)
    /\ locals.variable_values[<<"a_x", "x">>].rows
          = [MergedX EXCEPT ![1][MaxLen] = MergedX[1][MaxLen - 1]]

\* ------------------------------------------------------------------------
\* Properties of the trimming, the filling and the diagnostic
\* ------------------------------------------------------------------------
\* the matrix of x as merged from chains of which each has sampled x
MergedXRetained ==
    /\ fn = "gelman_rubin" /\ args.n_most_frequent = None /\ AllChainsValid
    /\ Len(args.trace_dists) >= 2
    /\ \A r \in DOMAIN args.trace_dists :
          /\ Len(args.trace_dists[r].traces) = Len(args.trace_dists[1].traces)
          /\ \E i \in DOMAIN MergedX[r] : MergedX[r][i] # NaN

\* the number of leading samples the matrix of a variable was trimmed by
NumMissing(k) == locals.trace_dist_length - NCols(locals.variable_values[k])

\* C12: for a variable whose matrix was trimmed by k leading samples the
\* returned R-hat entry is nan at every cutoff t < k, and at every cutoff
\* t > k it is the diagnostic of the first t - k columns of the trimmed matrix.
C12_RhatCutoffs ==
    (GRDone /\ outcome.status = "returned")
        => \A key \in DOMAIN locals.variable_values : \A i \in DOMAIN outcome.value.iters :
              LET k == NumMissing(key)
                  t == outcome.value.iters[i]
                  entry == outcome.value.variable_rhats[key[1]][i]
                  rows == locals.variable_values[key].rows
              IN  /\ t < k => entry = NaNF
                  /\ t > k => entry = gelman_rubin_diagnostic(
                                         [r \in DOMAIN rows |-> SubSeq(rows[r], 1, t - k)]).value

\* a returned R-hat of a variable trimmed by two or more samples, nan at the
\* first cutoff and computed (not nan) at a later one
C12_Witness ==
    /\ GRDone /\ outcome.status = "returned"
    /\ \E key \in DOMAIN locals.variable_values : \E i \in DOMAIN outcome.value.iters :
          /\ NumMissing(key) >= 2
          /\ outcome.value.iters[1] < NumMissing(key)
          /\ outcome.value.variable_rhats[key[1]][1] = NaNF
          /\ outcome.value.iters[i] > NumMissing(key)
          /\ outcome.value.variable_rhats[key[1]][i].t # "nan"

\* R-hat squared of an m x n integer matrix as the fraction the formulas of
\* the diagnostic give: with S_i and Q_i the sum and the sum of squares of
\* chain i and T the sum of all entries,
\*   W = wn / (m n^2),       wn = sum_i (n Q_i - S_i^2)
\*   B = bn / ((m-1) m^2 n), bn = sum_i (m S_i - T)^2
\*   V / W = ((n-1)(m-1) m^2 wn + n (m+1) bn) / (n (m-1) m^2 wn)
RhatSquared(x) ==
    LET m == Len(x)
        n == Len(x[1])
        S(i) == SumSeq(x[i])
        Q(i) == SumSeq([j \in DOMAIN x[i] |-> x[i][j] * x[i][j]])
        T == SumSeq([i \in 1..m |-> S(i)])
        wn == SumSeq([i \in 1..m |-> n * Q(i) - S(i) * S(i)])
        bn == SumSeq([i \in 1..m |-> (m * S(i) - T) * (m * S(i) - T)])
    IN  [wn |-> wn, bn |-> bn,
         num |-> (n - 1) * (m - 1) * m * m * wn + n * (m + 1) * bn,
         den |-> n * (m - 1) * m * m * wn]

\* the R-hat entries of a returned call computed from columns without nan:
\* <<entry, the columns used>>
RhatEntriesComputed ==
    LET vv == locals.variable_values
    IN  {<<outcome.value.variable_rhats[e[1][1]][e[2]],
           Columns(vv[e[1]].rows, 1, locals.iters[e[2]] - NumMissing(e[1]))>> :
            e \in {e \in (DOMAIN vv) \X (DOMAIN locals.iters) :
                     LET n == locals.iters[e[2]] - NumMissing(e[1])
                     IN  /\ n >= 1
                         /\ \A r \in DOMAIN vv[e[1]].rows : \A j \in 1..n :
                               vv[e[1]].rows[r][j] # NaN}}

FirstCommonColumn(rows) ==
    Min({c \in 0..(Len(rows[1]) - 1) :
            \A r \in DOMAIN rows : \E i \in 1..(c + 1) : rows[r][i] # NaN})

\* C18: the matrix of every retained variable is cut to begin at the first
\* iteration by which every chain has sampled the variable: the columns before
\* it are dropped, the samples from it on are kept in place, and the trimmed
\* width plus that index is the common chain length.
C18_TrimToFirstCommonColumn ==
    [][(fn = "gelman_rubin" /\ pc = "fill" /\ pc' = "rhat")
        => \A k \in DOMAIN locals.variable_values :
             LET rows == locals.variable_values[k].rows
                 new == locals'.variable_values[k].rows
                 sc == FirstCommonColumn(rows)
             IN  /\ NCols([rows |-> new]) + sc = locals.trace_dist_length
                 /\ \A r \in DOMAIN rows : \A j \in DOMAIN new[r] :
                       rows[r][sc + j] # NaN => new[r][j] = rows[r][sc + j]]_vars

\* MaxChains chains of MaxLen traces, x first sampled at the last trace of the
\* first chain and at the first trace of the others: one column is left
C18_Witness ==
    /\ fn = "gelman_rubin" /\ pc = "rhat" /\ MergedXRetained
    /\ Len(args.trace_dists) = MaxChains
    /\ Len(args.trace_dists[1].traces) = MaxLen
    /\ FirstCommonColumn(MergedX) = MaxLen - 1
    /\ MergedX[2][1] # NaN
    /\ <<"a_x", "x">> \in DOMAIN locals.variable_values
    /\ NCols(locals.variable_values[<<"a_x", "x">>]) = 1

\* C19: after trimming and forward-filling no entry of a retained variable's
\* matrix is missing (nan).
C19_NoMissingAfterFill ==
    (fn = "gelman_rubin" /\ pc \in {"rhat", "return"})
        => \A k \in DOMAIN locals.variable_values :
              \A r \in DOMAIN locals.variable_values[k].rows :
                 \A i \in DOMAIN locals.variable_values[k].rows[r] :
                    locals.variable_values[k].rows[r][i] # NaN

\* ------------------------------------------------------------------------
\* autocorrelations
\* ------------------------------------------------------------------------
Sign(x) == IF x < 0 THEN 0 - 1 ELSE IF x > 0 THEN 1 ELSE 0

\* np.corrcoef(a, b)[0][1], the Pearson correlation cov/sqrt(var_a * var_b):
\* kept as [t |-> "corr", n, d], standing for sign(n) * sqrt(|n| / d); nan when
\* either sequence has no variance or is empty
CorrCoef(a, b) ==
    LET len == Len(a)
        sa == SumSeq(a)
        sb == SumSeq(b)
        sab == SumSeq([i \in 1..len |-> a[i] * b[i]])
        saa == SumSeq([i \in 1..len |-> a[i] * a[i]])
        sbb == SumSeq([i \in 1..len |-> b[i] * b[i]])
        cov == len * sab - sa * sb
        va == len * saa - sa * sa
        vb == len * sbb - sb * sb
        g == GCD(cov * cov, va * vb)
    IN  IF len = 0 \/ Len(b) # len \/ va * vb = 0 THEN NaNF
        ELSE [t |-> "corr", n |-> Sign(cov) * ((cov * cov) \div g), d |-> (va * vb) \div g]

\* values[lag:] and values[:-lag] for lag > 0
DropFirst(values, lag) == SubSeq(values, lag + 1, Len(values))
DropLast(values, lag) == SubSeq(values, 1, Len(values) - lag)

\* autocorrelation without the special case for lag 0: values[:-0] is empty
autocorrelation_NoLagZero(values, lags) ==
    [j \in DOMAIN lags |->
        CorrCoef(DropFirst(values, lags[j]),
                 IF lags[j] = 0 THEN <<>> ELSE DropLast(values, lags[j]))]

autocorrelation(values, lags) ==
    [j \in DOMAIN lags |->
        IF lags[j] = 0 THEN Rat(1, 1)
        ELSE CorrCoef(DropFirst(values, lags[j]), DropLast(values, lags[j]))]

\* np.unique(np.logspace(0, np.log10(length/2)).astype(int)): for the lengths
\* of this model 1..length/2, and 0 and 1 for a single trace (the points run
\* from 1 down to 0.5)
DefaultLags(length) ==
    IF length = 1 THEN <<0, 1>> ELSE [i \in 1..(length \div 2) |-> i]

ACArgs(trace_dist, names, lags, n_most_frequent, plot, plot_file_name) ==
    [trace_dist |-> trace_dist, names |-> names, lags |-> lags,
     n_most_frequent |-> n_most_frequent, plot |-> plot, plot_file_name |-> plot_file_name]

ACLocals == [lags |-> <<>>, variable_values |-> <<>>, variable_autocorrelations |-> <<>>]

\* AC_TypeCheck without the check of the first element (line 348)
AC_TypeCheck_EmpiricalOnly ==
    /\ fn = "autocorrelations" /\ pc = "typecheck"
    /\ IF ~IsEmpirical(args.trace_dist)
       THEN outcome' = Raised("TypeError") /\ pc' = "done"
       ELSE pc' = "names" /\ UNCHANGED outcome
    /\ UNCHANGED <<fn, args, locals, effects>>

\* lines 346-349
AC_TypeCheck ==
    /\ fn = "autocorrelations" /\ pc = "typecheck"
    /\ IF ~IsEmpirical(args.trace_dist) \/ ~FirstIsTrace(args.trace_dist)
       THEN outcome' = Raised("TypeError") /\ pc' = "done"
       ELSE pc' = "names" /\ UNCHANGED outcome
    /\ UNCHANGED <<fn, args, locals, effects>>

\* lines 357-367: the lags, and the named variables of the last trace
AC_Names ==
    /\ fn = "autocorrelations" /\ pc = "names"
    /\ LET traces == args.trace_dist.traces
           last == traces[Len(traces)]
           zeros == [i \in 1..Len(traces) |-> 0]
           auto == {s \in Sites : /\ Variable[s].name \in named_variables(last)
                                  /\ ~Variable[s].observed
                                  /\ Variable[s].scalar}
           asked == {NamedSite(args.names.list[j]) : j \in DOMAIN args.names.list}
           keys(sites) == {<<Variable[s].address, Variable[s].name>> : s \in sites}
           lags == IF args.lags.given THEN args.lags.list ELSE DefaultLags(Len(traces))
       IN  IF args.names.given /\ \E j \in DOMAIN args.names.list :
                                      args.names.list[j] \notin named_variables(last)
           THEN /\ outcome' = Raised("KeyError")
                /\ pc' = "done"
                /\ UNCHANGED locals
           ELSE /\ locals' = [locals EXCEPT !.lags = lags,
                                 !.variable_values =
                                     [k \in keys(IF args.names.given THEN asked ELSE auto) |-> zeros]]
                /\ pc' = "most_frequent"
                /\ UNCHANGED outcome
    /\ UNCHANGED <<fn, args, effects>>

\* lines 369-391: every trace is scanned for its controlled scalar addresses
AC_MostFrequent ==
    /\ fn = "autocorrelations" /\ pc = "most_frequent"
    /\ LET traces == args.trace_dist.traces
           zeros == [i \in 1..Len(traces) |-> 0]
           chosen == TakeMostFrequent(address_counts(traces), args.n_most_frequent)
           keys == {<<chosen[j], "None">> : j \in DOMAIN chosen}
           vv == locals.variable_values
       IN  IF args.n_most_frequent = None
           THEN UNCHANGED <<locals, effects>>
           ELSE /\ locals' = [locals EXCEPT !.variable_values =
                                 [k \in DOMAIN vv \cup keys |-> IF k \in keys THEN zeros ELSE vv[k]]]
                /\ effects' = [effects EXCEPT !.scanned = @ + Len(traces)]
    /\ pc' = "check"
    /\ UNCHANGED <<fn, args, outcome>>

\* AC_Check without the raise
AC_Check_NoRaise ==
    /\ fn = "autocorrelations" /\ pc = "check"
    /\ pc' = "load"
    /\ UNCHANGED <<fn, args, locals, effects, outcome>>

\* lines 393-394
AC_Check ==
    /\ fn = "autocorrelations" /\ pc = "check"
    /\ IF DOMAIN locals.variable_values = {}
       THEN outcome' = Raised("RuntimeError") /\ pc' = "done"
       ELSE pc' = "load" /\ UNCHANGED outcome
    /\ UNCHANGED <<fn, args, locals, effects>>

\* lines 396-405: values[i] = float(trace.variables_dict_address[address].value);
\* the loop stops at the first trace that lacks a selected address
AC_Load ==
    /\ fn = "autocorrelations" /\ pc = "load"
    /\ LET traces == args.trace_dist.traces
           vv == locals.variable_values
           fails(i) == \E k \in DOMAIN vv :
                          \/ k[1] \notin variables_dict_address(traces[i])
                          \/ ~Variable[AddressSite(k[1])].scalar
           bad == {i \in 1..Len(traces) : fails(i)}
       IN  IF bad # {}
           THEN /\ outcome' = Raised(IF \E k \in DOMAIN vv :
                                           k[1] \notin variables_dict_address(traces[Min(bad)])
                                     THEN "KeyError" ELSE "ValueError")
                /\ pc' = "done"
                /\ effects' = [effects EXCEPT !.loaded = @ + (Min(bad) - 1) * Cardinality(DOMAIN vv)]
                /\ UNCHANGED locals
           ELSE /\ locals' = [locals EXCEPT !.variable_values =
                                 [k \in DOMAIN vv |->
                                     [i \in 1..Len(traces) |-> traces[i][AddressSite(k[1])]]]]
                /\ effects' = [effects EXCEPT !.loaded = @ + Len(traces) * Cardinality(DOMAIN vv)]
                /\ pc' = "compute"
                /\ UNCHANGED outcome
    /\ UNCHANGED <<fn, args>>

\* lines 406-411
AC_Compute ==
    /\ fn = "autocorrelations" /\ pc = "compute"
    /\ LET vv == locals.variable_values
           addresses == {k[1] : k \in DOMAIN vv}
           key(a) == CHOOSE k \in DOMAIN vv : k[1] = a
       IN  locals' = [locals EXCEPT !.variable_autocorrelations =
                         [a \in addresses |-> autocorrelation(vv[key(a)], locals.lags)]]
    /\ pc' = "plot"
    /\ UNCHANGED <<fn, args, effects, outcome>>

\* lines 412-443: the figure, its file, and the result
AC_PlotReturn ==
    /\ fn = "autocorrelations" /\ pc = "plot"
    /\ effects' = IF args.plot
                  THEN [effects EXCEPT !.plots = @ + 1,
                           !.writes = IF args.plot_file_name # "None"
                                      THEN Append(@, args.plot_file_name) ELSE @]
                  ELSE effects
    /\ outcome' = Returned([lags |-> locals.lags,
                            variable_autocorrelations |-> locals.variable_autocorrelations])
    /\ pc' = "done"
    /\ UNCHANGED <<fn, args, locals>>

\* ------------------------------------------------------------------------
\* The calls of autocorrelations that are explored
\* ------------------------------------------------------------------------
NoLags == [given |-> FALSE, list |-> <<>>]
Lags(list) == [given |-> TRUE, list |-> list]

\* every sequence of values of x, with default and explicit lags
ACValueCalls ==
    {ACArgs(Chain("EmpiricalTrace", ch), NoNames, lags, None, plot, "None") :
        ch \in XChains, lags \in {NoLags, Lags([i \in 1..MaxLen |-> i - 1])},
        plot \in BOOLEAN}

\* a chain in which the tagged x, the controlled c and the observed o are
\* each sampled at a set of positions
SiteChain(len, px, pc_, po) ==
    Chain("EmpiricalTrace",
          [i \in 1..len |-> Tr(IF i \in px THEN i ELSE Absent,
                               IF i \in pc_ THEN len - i ELSE Absent,
                               IF i \in po THEN 0 ELSE Absent, Absent)])

ACSelectCalls ==
    {ACArgs(SiteChain(len, px, pc_, po), names, NoLags, nmf, TRUE, "acf.pdf") :
        len \in 1..MaxLen, px \in SUBSET (1..MaxLen), pc_ \in SUBSET (1..MaxLen),
        po \in SUBSET (1..MaxLen),
        names \in {NoNames, Names(<<"x">>)}, nmf \in {None, 0, 1}}

ACBadCalls ==
    {ACArgs(Chain(kind, [j \in 1..len |-> XTrace(0)]), NoNames, NoLags, nmf, TRUE, "acf.pdf") :
        kind \in Kinds \ {"EmpiricalTrace"}, len \in 1..MaxLen, nmf \in {None, 1}}

ACCalls == ACValueCalls \cup ACSelectCalls \cup ACBadCalls

InitAC ==
    /\ fn = "autocorrelations"
    /\ args \in ACCalls
    /\ pc = "typecheck"
    /\ locals = ACLocals
    /\ effects = NoEffects
    /\ outcome = Running

NextAC == AC_TypeCheck \/ AC_Names \/ AC_MostFrequent \/ AC_Check \/ AC_Load
              \/ AC_Compute \/ AC_PlotReturn

SpecAC == InitAC /\ [][NextAC]_vars

\* ------------------------------------------------------------------------
\* Properties of autocorrelations
\* ------------------------------------------------------------------------
ACCall == fn = "autocorrelations"

NothingDone ==
    /\ effects.scanned = 0 /\ effects.loaded = 0
    /\ effects.plots = 0 /\ effects.writes = <<>>

\* C4: autocorrelations fails with a TypeError when trace_dist is not an
\* Empirical distribution or its first element is not a Trace, before it
\* selects a variable, reads a trace value or draws a plot.
C4_TypeErrorBeforeAnything ==
    (ACCall /\ args.trace_dist.kind # "EmpiricalTrace")
        => /\ pc \in {"typecheck", "done"}
           /\ pc = "done" => (outcome.status = "raised" /\ outcome.exc = "TypeError")
           /\ DOMAIN locals.variable_values = {}
           /\ NothingDone

C4_Witness ==
    /\ ACCall /\ pc = "done"
    /\ args.trace_dist.kind = "EmpiricalOther"
    /\ args.n_most_frequent # None /\ args.plot
    /\ outcome.status = "raised" /\ outcome.exc = "TypeError"
    /\ NothingDone

\* C6: every entry of the returned autocorrelation array whose lag is 0 is
\* 1.0, for every selected variable and whatever the values are.
C6_LagZeroIsOne ==
    (ACCall /\ outcome.status = "returned")
        => \A a \in DOMAIN outcome.value.variable_autocorrelations :
              \A j \in DOMAIN outcome.value.lags :
                  outcome.value.lags[j] = 0
                      => outcome.value.variable_autocorrelations[a][j] = [t |-> "num", n |-> 1, d |-> 1]

\* a returned call with lag 0 among the lags, for a constant sequence of more
\* than one value (its other autocorrelations are nan)
C6_Witness ==
    /\ ACCall /\ outcome.status = "returned"
    /\ Len(args.trace_dist.traces) = MaxLen
    /\ \A i \in DOMAIN args.trace_dist.traces : args.trace_dist.traces[i].x = MaxVal
    /\ outcome.value.lags[1] = 0
    /\ outcome.value.variable_autocorrelations["a_x"][1].t = "num"
    /\ outcome.value.variable_autocorrelations["a_x"][2].t = "nan"

\* the last trace has no named variable that is scalar and not observed
NoNamedCandidate ==
    LET traces == args.trace_dist.traces
    IN  \A s \in Sites :
            ~(/\ traces[Len(traces)][s] # Absent
              /\ Variable[s].name # "None"
              /\ ~Variable[s].observed
              /\ Variable[s].scalar)

\* no scalar controlled address is sampled in every trace
NoFrequentCandidate ==
    \A s \in Sites :
        ~(/\ Variable[s].control /\ Variable[s].scalar
          /\ \A i \in DOMAIN args.trace_dist.traces : args.trace_dist.traces[i][s] # Absent)

NoQualifyingVariable ==
    /\ args.trace_dist.kind = "EmpiricalTrace"
    /\ ~args.names.given
    /\ NoNamedCandidate
    /\ (args.n_most_frequent = None \/ NoFrequentCandidate)

\* C9: when no qualifying variable is found (names is None, the last trace has
\* no non-observed scalar named variable, and n_most_frequent is None or no
\* scalar controlled address appears in every trace) autocorrelations fails
\* with a RuntimeError before it loads a variable value or plots.
C9_NoVariableRuntimeError ==
    (ACCall /\ NoQualifyingVariable)
        => /\ pc \notin {"load", "compute", "plot"}
           /\ pc = "done" => (outcome.status = "raised" /\ outcome.exc = "RuntimeError")
           /\ effects.loaded = 0 /\ effects.plots = 0 /\ effects.writes = <<>>

\* the error is raised although x and c are sampled in some traces, after
\* every trace has been scanned for frequent addresses
C9_Witness ==
    /\ ACCall /\ pc = "done" /\ NoQualifyingVariable
    /\ args.n_most_frequent # None /\ args.plot
    /\ \E i \in DOMAIN args.trace_dist.traces : args.trace_dist.traces[i].x # Absent
    /\ \E i \in DOMAIN args.trace_dist.traces : args.trace_dist.traces[i].c # Absent
    /\ effects.scanned = Len(args.trace_dist.traces)
    /\ outcome.status = "raised" /\ outcome.exc = "RuntimeError"

\* ------------------------------------------------------------------------
\* log_prob
\* ------------------------------------------------------------------------
LPArgs(is_list, trace_dists, resolution, plot, plot_file_name) ==
    [is_list |-> is_list, trace_dists |-> trace_dists, resolution |-> resolution,
     plot |-> plot, plot_file_name |-> plot_file_name]

LPLocals == [j |-> 1, iters |-> <<>>, log_probs |-> <<>>]

\* list(range(0, length, step))
RangeList(length, step) == [i \in 1..((length + step - 1) \div step) |-> (i - 1) * step]

\* SubsampledIters with the step rounded up instead of down
SubsampledIters_CeilStep(length, resolution) ==
    RangeList(length, (length + resolution - 1) \div resolution)

\* line 296: the indices read from a distribution of the given length
SubsampledIters(length, resolution) ==
    RangeList(length, IF length \div resolution >= 1 THEN length \div resolution ELSE 1)

\* lines 289-292
LP_ListCheck ==
    /\ fn = "log_prob" /\ pc = "listcheck"
    /\ IF ~args.is_list
       THEN outcome' = Raised("TypeError") /\ pc' = "done"
       ELSE pc' = "dists" /\ UNCHANGED outcome
    /\ UNCHANGED <<fn, args, locals, effects>>

\* lines 293-313, one iteration: the check of trace_dists[j][0], the indices,
\* and the log-probabilities read at them (log_probs holds, for each index
\* read, the pair <<j, i>> standing for trace_dists[j]._get_value(i).log_prob)
LP_Dist ==
    /\ fn = "log_prob" /\ pc = "dists"
    /\ locals.j <= Len(args.trace_dists)
    /\ LET td == args.trace_dists[locals.j]
           idx == SubsampledIters(Len(td.traces), args.resolution)
       IN  IF ~IsSubscriptable(td) \/ ~FirstIsTrace(td)
           THEN /\ outcome' = Raised("TypeError")
                /\ pc' = "done"
                /\ UNCHANGED <<locals, effects>>
           ELSE IF ~HasLength(td)
           THEN /\ outcome' = Raised("AttributeError")
                /\ pc' = "done"
                /\ UNCHANGED <<locals, effects>>
           ELSE /\ locals' = [locals EXCEPT !.j = @ + 1,
                                 !.iters = Append(@, idx),
                                 !.log_probs = Append(@, [i \in DOMAIN idx |-> <<locals.j, idx[i]>>])]
                /\ effects' = [effects EXCEPT !.loaded = @ + Len(idx)]
                /\ UNCHANGED <<pc, outcome>>
    /\ UNCHANGED <<fn, args>>

\* lines 315-342: the figure, its file, and the result
LP_PlotReturn ==
    /\ fn = "log_prob" /\ pc = "dists"
    /\ locals.j > Len(args.trace_dists)
    /\ effects' = IF args.plot
                  THEN [effects EXCEPT !.plots = @ + 1,
                           !.writes = IF args.plot_file_name # "None"
                                      THEN Append(@, args.plot_file_name) ELSE @]
                  ELSE effects
    /\ outcome' = Returned([iters |-> locals.iters, log_probs |-> locals.log_probs])
    /\ pc' = "done"
    /\ UNCHANGED <<fn, args, locals>>

\* ------------------------------------------------------------------------
\* The calls of log_prob that are explored: up to MaxChains elements of any
\* kind, all of one length
\* ------------------------------------------------------------------------
LPCalls ==
    {LPArgs(is_list, [j \in DOMAIN kinds |-> Chain(kinds[j], [i \in 1..len |-> XTrace(0)])],
            resolution, plot[1], plot[2]) :
        is_list \in BOOLEAN, kinds \in SeqsUpTo(Kinds, MaxChains), len \in 1..MaxLen,
        resolution \in 1..MaxLen,
        plot \in {<<FALSE, "None">>, <<TRUE, "None">>, <<TRUE, "log_prob.pdf">>}}

InitLP ==
    /\ fn = "log_prob"
    /\ args \in LPCalls
    /\ pc = "listcheck"
    /\ locals = LPLocals
    /\ effects = NoEffects
    /\ outcome = Running

NextLP == LP_ListCheck \/ LP_Dist \/ LP_PlotReturn

SpecLP == InitLP /\ [][NextLP]_vars

\* ------------------------------------------------------------------------
\* Properties of log_prob
\* ------------------------------------------------------------------------
\* C3: log_prob fails with a TypeError when its argument is not a list or when
\* any element of the list is not a trace distribution over Trace values, and
\* the failing call draws no plot and writes no plot file.
C3_InvalidElementTypeError ==
    (fn = "log_prob" /\ pc = "done"
        /\ (~args.is_list \/ \E j \in DOMAIN args.trace_dists :
                                 args.trace_dists[j].kind # "EmpiricalTrace"))
        => /\ outcome.status = "raised" /\ outcome.exc = "TypeError"
           /\ effects.plots = 0 /\ effects.writes = <<>>

\* ------------------------------------------------------------------------
\* The file system, as the report writers see it
\* ------------------------------------------------------------------------
\* A directory is the sequence of its path components; report_dir=None is NoDir
NoDir == <<>>
Join(dir, name) == Append(dir, name)

Prefixes(dir) == {SubSeq(dir, 1, n) : n \in 1..Len(dir)}
PrefixClosed(dirs) == \A d \in dirs : Prefixes(d) \subseteq dirs

\* MakeDirs that creates only the last component's parent directories
MakeDirs_ParentsOnly(dirs, dir) == IF dir \in dirs THEN dirs ELSE dirs \cup (Prefixes(dir) \ {dir})

\* if not os.path.exists(d): os.makedirs(d)
MakeDirs(dirs, dir) == IF dir \in dirs THEN dirs ELSE dirs \cup Prefixes(dir)

\* open(file, 'w'), savefig, render_to_file, save: the file name-index in dir;
\* dir_exists records whether dir existed when the file was written
FileWrite(dirs, dir, name, index) ==
    [dir |-> dir, name |-> name, index |-> index, dir_exists |-> dir \in dirs]

\* one step of a report: write the files into dir and go on, or fail when dir
\* does not exist
WriteStep(dir, files, next) ==
    /\ effects' = [effects EXCEPT !.writes = @ \o files]
    /\ IF dir \in effects.dirs
       THEN pc' = next /\ UNCHANGED outcome
       ELSE pc' = "done" /\ outcome' = Raised("FileNotFoundError")

Named(dir, names) == [i \in DOMAIN names |-> FileWrite(effects.dirs, dir, names[i], 0)]

\* ------------------------------------------------------------------------
\* network_statistics and Diagnostics.inference_network
\* ------------------------------------------------------------------------
\* args.params: the number of dimensions of each parameter tensor of the
\* network; the rates of lines 18-56 are not modelled, stats stands for them
NSArgs(f, has_network, report_dir, params, existing) ==
    [has_network |-> has_network, report_dir |-> report_dir, params |-> params, f |-> f,
     existing |-> existing]

ReportLocals == [report_dir |-> NoDir, index |-> 1, stats |-> "None", trace_dist |-> "None",
                 address_id_dist |-> <<>>, trace_id_dist |-> <<>>, rendered |-> <<>>]

\* D_InferenceNetwork that reports without looking for a network
D_InferenceNetwork_NoCheck ==
    /\ fn = "inference_network" /\ pc = "start"
    /\ pc' = "ns_stats"
    /\ UNCHANGED <<fn, args, locals, effects, outcome>>

\* lines 647-650
D_InferenceNetwork ==
    /\ fn = "inference_network" /\ pc = "start"
    /\ IF ~args.has_network
       THEN outcome' = Raised("RuntimeError") /\ pc' = "done"
       ELSE pc' = "ns_stats" /\ UNCHANGED outcome
    /\ UNCHANGED <<fn, args, locals, effects>>

\* lines 18-56
NS_Stats ==
    /\ \/ fn = "network_statistics" /\ pc = "start"
       \/ fn = "inference_network" /\ pc = "ns_stats"
    /\ locals' = [locals EXCEPT !.stats = "inference_network_stats",
                                !.report_dir = args.report_dir]
    /\ pc' = "ns_dir"
    /\ UNCHANGED <<fn, args, effects, outcome>>

\* lines 58-61, and line 124 when no directory is given
NS_ReportDir ==
    /\ pc = "ns_dir"
    /\ IF locals.report_dir = NoDir
       THEN /\ outcome' = Returned(locals.stats)
            /\ pc' = "done"
            /\ UNCHANGED effects
       ELSE /\ effects' = [effects EXCEPT !.dirs = MakeDirs(@, locals.report_dir)]
            /\ pc' = "ns_files"
            /\ UNCHANGED outcome
    /\ UNCHANGED <<fn, args, locals>>

\* lines 62-96: the text summary and the two plots
NS_Files ==
    /\ pc = "ns_files"
    /\ WriteStep(locals.report_dir,
                 Named(locals.report_dir,
                       <<"inference_network_stats.txt", "loss.pdf", "num_params.pdf">>),
                 "ns_params_dir")
    /\ UNCHANGED <<fn, args, locals>>

\* lines 98-101
NS_ParamsDir ==
    /\ pc = "ns_params_dir"
    /\ effects' = [effects EXCEPT !.dirs = MakeDirs(@, Join(locals.report_dir, "params"))]
    /\ pc' = "ns_params_csv"
    /\ UNCHANGED <<fn, args, locals, outcome>>

\* lines 102-104
NS_ParamsCsv ==
    /\ pc = "ns_params_csv"
    /\ WriteStep(Join(locals.report_dir, "params"),
                 Named(Join(locals.report_dir, "params"), <<"params.csv">>), "ns_param")
    /\ locals' = [locals EXCEPT !.index = 1]
    /\ UNCHANGED <<fn, args>>

\* NS_Param that stops the report at a parameter of more than 2 dimensions
NS_Param_Abort ==
    /\ pc = "ns_param"
    /\ locals.index <= Len(args.params)
    /\ LET dir == Join(locals.report_dir, "params")
           ndim == IF args.params[locals.index] = 1 THEN 2 ELSE args.params[locals.index]
       IN  IF ndim > 2
           THEN pc' = "done" /\ outcome' = Raised("ValueError") /\ UNCHANGED effects
           ELSE WriteStep(dir, <<FileWrite(effects.dirs, dir, "param.png", locals.index - 1)>>,
                          "ns_param")
    /\ locals' = [locals EXCEPT !.index = @ + 1]
    /\ UNCHANGED <<fn, args>>

\* lines 105-123, one parameter: a heatmap unless it has more than 2 dimensions
NS_Param ==
    /\ pc = "ns_param"
    /\ locals.index <= Len(args.params)
    /\ LET dir == Join(locals.report_dir, "params")
           ndim == IF args.params[locals.index] = 1 THEN 2 ELSE args.params[locals.index]
       IN  IF ndim > 2
           THEN UNCHANGED <<effects, outcome, pc>>
           ELSE WriteStep(dir, <<FileWrite(effects.dirs, dir, "param.png", locals.index - 1)>>,
                          "ns_param")
    /\ locals' = [locals EXCEPT !.index = @ + 1]
    /\ UNCHANGED <<fn, args>>

\* line 124
NS_Return ==
    /\ pc = "ns_param"
    /\ locals.index > Len(args.params)
    /\ outcome' = Returned(locals.stats)
    /\ pc' = "done"
    /\ UNCHANGED <<fn, args, locals, effects>>

\* ------------------------------------------------------------------------
\* graph, Diagnostics.prior_graph and Diagnostics.posterior_graph
\* ------------------------------------------------------------------------
\* What Graph(trace_dist, ...) finds, as far as graph uses it:
\*   address_stats  per address its count and what extracting its values gives:
\*                  "scalar" values, only "nonscalar" values, or an exception
\*                  ("raises")
\*   trace_stats    per unique trace its count
\* weighted: the trace distribution has non-uniform weights; pdfjam: the exit
\* status of the merge command; existing: the directories in place at the call
GArgs(f, report_dir, inference_engine, address_stats, trace_stats, weighted, pdfjam, existing) ==
    [f |-> f, report_dir |-> report_dir, inference_engine |-> inference_engine,
     address_stats |-> address_stats, trace_stats |-> trace_stats,
     weighted |-> weighted, pdfjam |-> pdfjam, existing |-> existing]

\* Empirical(values, weights=weights)
Empirical(values, weights) == [values |-> values, weights |-> weights]

\* lines 653 and 665: the traces are drawn from the model
D_Traces ==
    /\ fn \in {"prior_graph", "posterior_graph"} /\ pc = "start"
    /\ locals' = [locals EXCEPT !.trace_dist =
                     IF fn = "prior_graph" THEN "prior_traces" ELSE "posterior_traces"]
    /\ pc' = "d_dir"
    /\ UNCHANGED <<fn, args, effects, outcome>>

\* lines 654-658 and 666-670
D_ReportDir ==
    /\ fn \in {"prior_graph", "posterior_graph"} /\ pc = "d_dir"
    /\ LET dir == IF fn = "prior_graph" THEN Join(args.report_dir, "prior")
                  ELSE Join(Join(args.report_dir, "posterior"), args.inference_engine)
       IN  IF args.report_dir = NoDir
           THEN /\ pc' = "g_build"
                /\ UNCHANGED <<locals, effects>>
           ELSE /\ locals' = [locals EXCEPT !.report_dir = dir]
                /\ effects' = [effects EXCEPT !.dirs = MakeDirs(@, dir)]
                /\ pc' = "d_save"
    /\ UNCHANGED <<fn, args, outcome>>

\* D_Save that saves nothing
D_Save_Nothing ==
    /\ fn \in {"prior_graph", "posterior_graph"} /\ pc = "d_save"
    /\ pc' = "g_build"
    /\ UNCHANGED <<fn, args, locals, effects, outcome>>

\* lines 659-661 and 671-673: trace_dist.save(file_name_dist)
D_Save ==
    /\ fn \in {"prior_graph", "posterior_graph"} /\ pc = "d_save"
    /\ WriteStep(locals.report_dir, Named(locals.report_dir, <<"traces.distribution">>), "g_build")
    /\ UNCHANGED <<fn, args, locals>>

\* lines 128-172, the entries of stats that the addresses and unique traces
\* decide
GraphStats == [addresses |-> Len(args.address_stats), trace_types |-> Len(args.trace_stats)]

\* lines 128-172: the statistics and the distributions over the IDs
G_Build ==
    /\ \/ fn = "graph" /\ pc = "start"
       \/ fn \in {"prior_graph", "posterior_graph"} /\ pc = "g_build"
    /\ LET address_ids == [i \in DOMAIN args.address_stats |-> i - 1]
           address_weights == [i \in DOMAIN args.address_stats |-> args.address_stats[i].count]
           trace_ids == [i \in DOMAIN args.trace_stats |-> i - 1]
           trace_weights == [i \in DOMAIN args.trace_stats |-> args.trace_stats[i]]
       IN  locals' = [locals EXCEPT
                         !.stats = GraphStats,
                         !.report_dir = IF fn = "graph" THEN args.report_dir ELSE @,
                         !.trace_dist = IF fn = "graph" THEN "trace_dist" ELSE @,
                         !.address_id_dist = Empirical(address_ids, address_weights),
                         !.trace_id_dist = Empirical(trace_ids, trace_ids)]
    /\ pc' = "g_dir"
    /\ UNCHANGED <<fn, args, effects, outcome>>

GraphResult == [master_graph |-> "master_graph", stats |-> locals.stats]

\* lines 174-177, and line 285 when no directory is given
G_ReportDir ==
    /\ pc = "g_dir"
    /\ IF locals.report_dir = NoDir
       THEN /\ outcome' = Returned(GraphResult)
            /\ pc' = "done"
            /\ UNCHANGED effects
       ELSE /\ effects' = [effects EXCEPT !.dirs = MakeDirs(@, locals.report_dir)]
            /\ pc' = "g_files"
            /\ UNCHANGED outcome
    /\ UNCHANGED <<fn, args, locals>>

\* lines 178-218: the text summary, the two tables and the five histograms
G_Files ==
    /\ pc = "g_files"
    /\ WriteStep(locals.report_dir,
                 Named(locals.report_dir,
                       <<"stats.txt", "addresses.csv", "traces.csv", "address_ids.pdf",
                         "trace_ids.pdf", "trace_length_all.pdf",
                         "trace_length_controlled.pdf", "trace_execution_time.pdf">>),
                 "g_latent_dir")
    /\ UNCHANGED <<fn, args, locals>>

\* lines 220-223
G_LatentDir ==
    /\ pc = "g_latent_dir"
    /\ effects' = [effects EXCEPT !.dirs = MakeDirs(@, Join(locals.report_dir, "latent_structure"))]
    /\ pc' = "g_latent_all"
    /\ UNCHANGED <<fn, args, locals, outcome>>

\* lines 224-229
G_LatentAll ==
    /\ pc = "g_latent_all"
    /\ WriteStep(Join(locals.report_dir, "latent_structure"),
                 Named(Join(locals.report_dir, "latent_structure"), <<"latent_structure_all">>),
                 "g_latent_sub")
    /\ locals' = [locals EXCEPT !.index = 1]
    /\ UNCHANGED <<fn, args>>

\* lines 231-239, one unique trace
G_LatentSub ==
    /\ pc = "g_latent_sub"
    /\ locals.index <= Len(args.trace_stats)
    /\ LET dir == Join(locals.report_dir, "latent_structure")
       IN  WriteStep(dir, <<FileWrite(effects.dirs, dir, "latent_structure_most_freq", locals.index)>>,
                     "g_latent_sub")
    /\ locals' = [locals EXCEPT !.index = @ + 1]
    /\ UNCHANGED <<fn, args>>

\* lines 241-247
G_DistDir ==
    /\ pc = "g_latent_sub"
    /\ locals.index > Len(args.trace_stats)
    /\ effects' = [effects EXCEPT !.dirs = MakeDirs(@, Join(locals.report_dir, "distributions"))]
    /\ locals' = [locals EXCEPT !.index = 1]
    /\ pc' = "g_address"
    /\ UNCHANGED <<fn, args, outcome>>

\* G_Address without the try/except: an exception of the extraction ends graph
G_Address_NoExcept ==
    /\ pc = "g_address"
    /\ locals.index <= Len(args.address_stats)
    /\ LET dir == Join(locals.report_dir, "distributions")
           kind == args.address_stats[locals.index].values
           files == <<FileWrite(effects.dirs, dir, "distribution.pdf", locals.index - 1)>>
                       \o IF args.weighted
                          THEN <<FileWrite(effects.dirs, dir, "proposal_distribution.pdf",
                                           locals.index - 1)>>
                          ELSE <<>>
       IN  /\ IF kind = "scalar" THEN WriteStep(dir, files, "g_address")
              ELSE IF kind = "raises"
              THEN pc' = "done" /\ outcome' = Raised("Exception") /\ UNCHANGED effects
              ELSE UNCHANGED <<effects, outcome, pc>>
           /\ locals' = [locals EXCEPT !.index = @ + 1, !.rendered = Append(@, kind = "scalar")]
    /\ UNCHANGED <<fn, args>>

\* lines 248-277, one address: its histogram (two when the distribution is
\* weighted) if its values can be extracted and some are scalar
G_Address ==
    /\ pc = "g_address"
    /\ locals.index <= Len(args.address_stats)
    /\ LET dir == Join(locals.report_dir, "distributions")
           can_render == args.address_stats[locals.index].values = "scalar"
           files == <<FileWrite(effects.dirs, dir, "distribution.pdf", locals.index - 1)>>
                       \o IF args.weighted
                          THEN <<FileWrite(effects.dirs, dir, "proposal_distribution.pdf",
                                           locals.index - 1)>>
                          ELSE <<>>
       IN  /\ IF can_render
              THEN WriteStep(dir, files, "g_address")
              ELSE UNCHANGED <<effects, outcome, pc>>
           /\ locals' = [locals EXCEPT !.index = @ + 1, !.rendered = Append(@, can_render)]
    /\ UNCHANGED <<fn, args>>

\* G_MergeReturn that raises when pdfjam fails
G_MergeReturn_Raise ==
    /\ pc = "g_address"
    /\ locals.index > Len(args.address_stats)
    /\ LET dir == Join(locals.report_dir, "distributions")
       IN  effects' = IF args.pdfjam = 0
                      THEN [effects EXCEPT !.writes = @ \o Named(dir, <<"all.pdf">>)]
                      ELSE effects
    /\ outcome' = IF args.pdfjam = 0 THEN Returned(GraphResult) ELSE Raised("RuntimeError")
    /\ pc' = "done"
    /\ UNCHANGED <<fn, args, locals>>

\* lines 279-285: pdfjam writes all.pdf when it succeeds; its failure is only printed
G_MergeReturn ==
    /\ pc = "g_address"
    /\ locals.index > Len(args.address_stats)
    /\ LET dir == Join(locals.report_dir, "distributions")
       IN  effects' = IF args.pdfjam = 0
                      THEN [effects EXCEPT !.writes = @ \o Named(dir, <<"all.pdf">>)]
                      ELSE effects
    /\ outcome' = Returned(GraphResult)
    /\ pc' = "done"
    /\ UNCHANGED <<fn, args, locals>>

\* ------------------------------------------------------------------------
\* The report calls that are explored
\* ------------------------------------------------------------------------
ReportDir == <<"report">>

\* the directories a report into ReportDir writes to
ReportDirs(f, engine) ==
    LET top == IF f = "prior_graph" THEN Join(ReportDir, "prior")
               ELSE IF f = "posterior_graph" THEN Join(Join(ReportDir, "posterior"), engine)
               ELSE ReportDir
    IN  Prefixes(top) \cup {Join(top, "params"), Join(top, "latent_structure"),
                            Join(top, "distributions")}

\* the directories a call may find in place: any prefix-closed set of them
Existing(f, engine) == {dirs \in SUBSET ReportDirs(f, engine) : PrefixClosed(dirs)}

NSCalls ==
    UNION {{NSArgs(f[1], f[2], dir, params, existing) :
               dir \in {NoDir, ReportDir}, params \in SeqsUpTo(1..3, MaxParams),
               existing \in Existing(f[1], "None")} :
           f \in {<<"network_statistics", TRUE>>, <<"inference_network", TRUE>>,
                  <<"inference_network", FALSE>>}}

\* the i-th of n addresses or unique traces has count n + 1 - i
AddressStats(kinds) ==
    [i \in DOMAIN kinds |-> [count |-> Len(kinds) + 1 - i, values |-> kinds[i]]]

GFunctions == {<<"graph", "None">>, <<"prior_graph", "None">>,
               <<"posterior_graph", "IMPORTANCE_SAMPLING">>,
               <<"posterior_graph", "RANDOM_WALK_METROPOLIS_HASTINGS">>}

\* every content of the trace distribution, with nothing or everything in place
GContentCalls ==
    UNION {{GArgs(f[1], dir, f[2], AddressStats(kinds), [i \in 1..n |-> n + 1 - i],
                  weighted, pdfjam, existing) :
               dir \in {NoDir, ReportDir},
               kinds \in SeqsUpTo({"scalar", "nonscalar", "raises"}, MaxAddresses),
               n \in 0..MaxTraceTypes, weighted \in BOOLEAN, pdfjam \in {0, 1},
               existing \in {{}, ReportDirs(f[1], f[2])}} :
           f \in GFunctions}

\* every set of directories in place, with MaxAddresses scalar addresses and
\* MaxTraceTypes unique traces
GDirectoryCalls ==
    UNION {{GArgs(f[1], ReportDir, f[2], AddressStats([i \in 1..MaxAddresses |-> "scalar"]),
                  [i \in 1..MaxTraceTypes |-> MaxTraceTypes + 1 - i], weighted, 0, existing) :
               weighted \in BOOLEAN, existing \in Existing(f[1], f[2])} :
           f \in GFunctions}

GCalls == GContentCalls \cup GDirectoryCalls

InitReport ==
    /\ args \in NSCalls \cup GCalls
    /\ fn = args.f
    /\ pc = "start"
    /\ locals = ReportLocals
    /\ effects = [NoEffects EXCEPT !.dirs = args.existing]
    /\ outcome = Running

NextReport ==
    \/ D_InferenceNetwork \/ NS_Stats \/ NS_ReportDir \/ NS_Files \/ NS_ParamsDir
    \/ NS_ParamsCsv \/ NS_Param \/ NS_Return
    \/ D_Traces \/ D_ReportDir \/ D_Save
    \/ G_Build \/ G_ReportDir \/ G_Files \/ G_LatentDir \/ G_LatentAll \/ G_LatentSub
    \/ G_DistDir \/ G_Address \/ G_MergeReturn

SpecReport == InitReport /\ [][NextReport]_vars

\* ------------------------------------------------------------------------
\* Properties of the report writers
\* ------------------------------------------------------------------------
\* C5: in network_statistics, graph, Diagnostics.prior_graph and
\* Diagnostics.posterior_graph every file written into report_dir or one of
\* its sub-directories is written when that directory already exists, also
\* when the directory did not exist before the call.
C5_DirectoryExistsBeforeWrite ==
    /\ \A i \in DOMAIN effects.writes :
          /\ effects.writes[i].dir_exists
          /\ effects.writes[i].dir \in effects.dirs
    /\ outcome.exc # "FileNotFoundError"

\* a posterior_graph report into a directory of which nothing existed, with
\* all its files written: the saved traces, the report, a latent structure
\* and a histogram
C5_Witness ==
    /\ fn = "posterior_graph" /\ pc = "done" /\ outcome.status = "returned"
    /\ args.report_dir = ReportDir /\ args.existing = {}
    /\ LET top == Join(Join(ReportDir, "posterior"), args.inference_engine)
           written == {<<effects.writes[i].dir, effects.writes[i].name>> : i \in DOMAIN effects.writes}
       IN  /\ {top, Join(top, "latent_structure"), Join(top, "distributions")} \subseteq effects.dirs
           /\ <<top, "traces.distribution">> \in written
           /\ <<top, "stats.txt">> \in written
           /\ <<Join(top, "latent_structure"), "latent_structure_most_freq">> \in written
           /\ <<Join(top, "distributions"), "distribution.pdf">> \in written
           /\ <<Join(top, "distributions"), "all.pdf">> \in written

\* the files written so far, as (directory, name, index) triples
Written == {<<effects.writes[i].dir, effects.writes[i].name, effects.writes[i].index>> :
               i \in DOMAIN effects.writes}

\* how many of the files written so far have this directory, name and index
TimesWritten(dir, name, index) ==
    Cardinality({i \in DOMAIN effects.writes :
                    /\ effects.writes[i].dir = dir /\ effects.writes[i].name = name
                    /\ effects.writes[i].index = index})

\* C11: Diagnostics.inference_network of a model without a trained inference
\* network fails with a RuntimeError, and creates no directory and writes no
\* file, also when report_dir is given.
C11_NoNetworkRuntimeError ==
    (fn = "inference_network" /\ ~args.has_network)
        => /\ pc \in {"start", "done"}
           /\ pc = "done" => (outcome.status = "raised" /\ outcome.exc = "RuntimeError")
           /\ effects.dirs = args.existing
           /\ effects.writes = <<>>

\* the call has failed for a model without network, with a report directory
\* that does not exist
C11_Witness ==
    /\ fn = "inference_network" /\ ~args.has_network /\ pc = "done"
    /\ args.report_dir = ReportDir /\ args.existing = {} /\ Len(args.params) > 0
    /\ outcome.exc = "RuntimeError"

GraphCall == fn \in {"graph", "prior_graph", "posterior_graph"}

\* C13: in graph an address whose value extraction raises gets no histogram,
\* every address before and after it is processed as usual (a histogram
\* exactly for the addresses with scalar values), and graph returns
\* (master_graph, stats).
C13_ExtractionFailureSkipsAddress ==
    (GraphCall /\ locals.report_dir # NoDir /\ pc \in {"g_address", "done"})
        => LET dir == Join(locals.report_dir, "distributions")
               seen == IF pc = "done" THEN Len(args.address_stats) ELSE locals.index - 1
           IN  /\ outcome.status # "raised"
               /\ Len(locals.rendered) = seen
               /\ \A i \in 1..seen :
                     /\ locals.rendered[i] = (args.address_stats[i].values = "scalar")
                     /\ TimesWritten(dir, "distribution.pdf", i - 1)
                           = IF args.address_stats[i].values = "scalar" THEN 1 ELSE 0
               /\ pc = "done" => outcome = Returned([master_graph |-> "master_graph",
                                                     stats |-> GraphStats])

\* graph has returned after an address whose extraction raised, followed by a
\* scalar address whose histogram was written
C13_Witness ==
    /\ GraphCall /\ pc = "done" /\ locals.report_dir # NoDir
    /\ outcome.status = "returned"
    /\ \E i \in DOMAIN args.address_stats :
          /\ i < Len(args.address_stats)
          /\ args.address_stats[i].values = "raises"
          /\ args.address_stats[i + 1].values = "scalar"
          /\ <<Join(locals.report_dir, "distributions"), "distribution.pdf", i>> \in Written

\* C14: graph returns (master_graph, stats), a value that does not depend on
\* the exit status of pdfjam, and raises nothing when pdfjam fails, for any
\* number of addresses.
C14_MergeFailureNotRaised ==
    (GraphCall /\ pc = "done")
        => /\ outcome = Returned([master_graph |-> "master_graph", stats |-> GraphStats])
           /\ <<Join(locals.report_dir, "distributions"), "all.pdf", 0>> \in Written
                 <=> (locals.report_dir # NoDir /\ args.pdfjam = 0)

\* graph has returned from a report without addresses whose merge failed
C14_Witness ==
    /\ GraphCall /\ pc = "done" /\ locals.report_dir # NoDir
    /\ args.pdfjam # 0 /\ Len(args.address_stats) = 0
    /\ outcome.status = "returned"

NetworkCall == fn \in {"network_statistics", "inference_network"}

\* C15: network_statistics with a report directory writes exactly one heatmap
\* for every parameter of 1 or 2 dimensions and none for a parameter of more
\* dimensions, goes on to the parameters after a skipped one, and returns
\* the stats.
C15_OneHeatmapPerRenderableParameter ==
    (NetworkCall /\ pc \in {"ns_param", "done"} /\ locals.report_dir # NoDir)
        => LET dir == Join(locals.report_dir, "params")
               seen == IF pc = "done" THEN Len(args.params) ELSE locals.index - 1
           IN  /\ outcome.status # "raised"
               /\ \A i \in DOMAIN args.params :
                     TimesWritten(dir, "param.png", i - 1)
                        = IF i <= seen /\ args.params[i] <= 2 THEN 1 ELSE 0
               /\ pc = "done" => outcome = Returned("inference_network_stats")

\* the report is done for a network with a parameter of more than 2
\* dimensions followed by one that was drawn
C15_Witness ==
    /\ NetworkCall /\ pc = "done" /\ locals.report_dir # NoDir
    /\ outcome.status = "returned"
    /\ \E i \in DOMAIN args.params :
          /\ i < Len(args.params)
          /\ args.params[i] > 2 /\ args.params[i + 1] <= 2
          /\ <<Join(locals.report_dir, "params"), "param.png", i>> \in Written

\* the directory Diagnostics.prior_graph / posterior_graph report into
GraphReportDir ==
    IF fn = "prior_graph" THEN Join(args.report_dir, "prior")
    ELSE Join(Join(args.report_dir, "posterior"), args.inference_engine)

\* C16: prior_graph and posterior_graph with a report_dir save the traces as
\* traces.distribution in report_dir/prior (report_dir/posterior/engine)
\* before any file of the graph report, which is written into that same
\* directory; with report_dir None they save nothing and create no directory.
C16_TracesSavedFirst ==
    (fn \in {"prior_graph", "posterior_graph"})
        => IF args.report_dir = NoDir
           THEN effects.writes = <<>> /\ effects.dirs = args.existing
           ELSE LET top == GraphReportDir
                IN  /\ \A i \in DOMAIN effects.writes :
                          /\ (i = 1) <=> (effects.writes[i].name = "traces.distribution")
                          /\ i = 1 => effects.writes[i].dir = top
                          /\ effects.writes[i].dir
                                \in {top, Join(top, "latent_structure"), Join(top, "distributions")}
                    /\ pc \notin {"start", "d_dir", "d_save"} => effects.writes # <<>>
                    /\ pc = "done" => /\ locals.report_dir = top
                                      /\ <<top, "stats.txt", 0>> \in Written

\* a posterior_graph report is done, the traces saved first and the report in
\* the directory of the inference engine
C16_Witness ==
    /\ fn = "posterior_graph" /\ pc = "done" /\ args.report_dir = ReportDir
    /\ args.inference_engine = "RANDOM_WALK_METROPOLIS_HASTINGS"
    /\ Len(effects.writes) > 1
    /\ effects.writes[1].name = "traces.distribution"
    /\ effects.writes[2].name = "stats.txt"
    /\ effects.writes[2].dir = <<"report", "posterior", "RANDOM_WALK_METROPOLIS_HASTINGS">>

\* the variables selected by address: the keys (address, None)
AddressSelected == {k \in DOMAIN locals.variable_values : k[2] = "None"}

\* C20: with n_most_frequent = n, n >= 0, at most n variables are selected by
\* address, each the address of a scalar controlled variable that every trace
\* of the distribution has.
C20_AtMostNAddressSelected ==
    (ACCall /\ args.n_most_frequent # None /\ pc \notin {"typecheck", "names", "most_frequent"})
        => /\ Cardinality(AddressSelected) <= args.n_most_frequent
           /\ \A k \in AddressSelected :
                 /\ Variable[AddressSite(k[1])].control
                 /\ Variable[AddressSite(k[1])].scalar
                 /\ \A i \in DOMAIN args.trace_dist.traces :
                       k[1] \in variables_dict_address(args.trace_dist.traces[i])

\* the distributions of a log_prob call that have been read so far
LPRead == IF fn = "log_prob" THEN DOMAIN locals.iters ELSE {}

\* the step s = max(1, floor(L / resolution)) for distribution j
LPStep(j) ==
    LET L == Len(args.trace_dists[j].traces)
    IN  IF L \div args.resolution > 1 THEN L \div args.resolution ELSE 1

\* the indices read from distribution j are 0, s, 2s, ... below L, and one
\* log-probability is retrieved at each of them
LPIndicesAtStep(j) ==
    LET L == Len(args.trace_dists[j].traces)
        it == locals.iters[j]
    IN  /\ it # <<>>
        /\ \A i \in DOMAIN it : it[i] = (i - 1) * LPStep(j) /\ it[i] < L
        /\ it[Len(it)] + LPStep(j) >= L
        /\ locals.log_probs[j] = [i \in DOMAIN it |-> <<j, it[i]>>]

\* C21 as stated: log_prob reads the indices 0, s, 2s, ... below L with
\* s = max(1, floor(L / resolution)) and so retrieves at most resolution
\* log-probabilities per distribution.
C21_AtMostResolution ==
    \A j \in LPRead :
       /\ LPIndicesAtStep(j)
       /\ Len(locals.log_probs[j]) <= args.resolution

\* C21, amended: log_prob reads the indices 0, s, 2s, ... below L with
\* s = max(1, floor(L / resolution)); that is ceil(L / s) log-probabilities
\* per distribution, fewer than 2 * resolution.
C21_SubsampledIndices ==
    \A j \in LPRead :
       /\ LPIndicesAtStep(j)
       /\ Len(locals.log_probs[j]) * LPStep(j) >= Len(args.trace_dists[j].traces)
       /\ (Len(locals.log_probs[j]) - 1) * LPStep(j) < Len(args.trace_dists[j].traces)
       /\ Len(locals.log_probs[j]) < 2 * args.resolution

\* log_prob has returned after reading more than resolution log-probabilities
\* from a distribution of MaxLen traces
C21_Witness ==
    /\ fn = "log_prob" /\ pc = "done" /\ outcome.status = "returned"
    /\ \E j \in LPRead :
          /\ Len(args.trace_dists[j].traces) = MaxLen
          /\ Len(outcome.value.log_probs[j]) > args.resolution

\* C22: in graph the distribution over address IDs weights ID i by the count
\* of the i-th address, and the distribution over unique trace IDs weights
\* ID i by the count of the i-th unique trace.
C22_IdDistributionsWeightedByCount ==
    (GraphCall /\ pc \notin {"start", "d_dir", "d_save", "g_build"})
        => /\ locals.address_id_dist.values = [i \in DOMAIN args.address_stats |-> i - 1]
           /\ locals.address_id_dist.weights
                 = [i \in DOMAIN args.address_stats |-> args.address_stats[i].count]
           /\ locals.trace_id_dist.values = [i \in DOMAIN args.trace_stats |-> i - 1]
           /\ locals.trace_id_dist.weights
                 = [i \in DOMAIN args.trace_stats |-> args.trace_stats[i]]

\* m >= 2 valid chains of equal length
EqualLengthChains ==
    /\ fn = "gelman_rubin" /\ Len(args.trace_dists) >= 2 /\ AllChainsValid
    /\ \A r \in DOMAIN args.trace_dists :
          Len(args.trace_dists[r].traces) = Len(args.trace_dists[1].traces)

\* the selected variables a chain has sampled at least once: the named,
\* non-controlled scalar ones (of the given names, if any), and with
\* n_most_frequent the address-selected ones
SampledInChain(chain) ==
    LET traces == chain.traces
        named == {s \in Sites :
                    /\ Variable[s].name # "None" /\ ~Variable[s].control /\ Variable[s].scalar
                    /\ args.names.given => Variable[s].name \in Range(args.names.list)
                    /\ \E i \in DOMAIN traces : traces[i][s] # Absent}
        frequent == IF args.n_most_frequent = None THEN {}
                    ELSE Range(TakeMostFrequent(address_counts(traces), args.n_most_frequent))
    IN  {Variable[s].address : s \in named} \cup frequent

\* C23: for m >= 2 chains of equal length gelman_rubin returns an R-hat
\* sequence exactly for the variables sampled at least once in every chain.
C23_RhatForVariablesOfEveryChain ==
    (GRDone /\ EqualLengthChains)
        => /\ outcome.status = "returned"
           /\ DOMAIN outcome.value.variable_rhats
                 = {a \in SampledInChain(args.trace_dists[1]) :
                       \A r \in DOMAIN args.trace_dists : a \in SampledInChain(args.trace_dists[r])}

====
